---- MODULE Spec2Model ----
(***************************************************************************)
(* Kerko's two-stage synchronization pipeline: sync_cache pulls the Zotero *)
(* library into the cache store, sync_index rebuilds the search index from *)
(* the cache, and the `sync` and `clean` commands of the CLI drive them.   *)
(***************************************************************************)
EXTENDS Integers, Sequences, FiniteSets, TLC

VARIABLES
    remote,      \* the Zotero library: key -> [version, tags]; version 0 = no such item
    libVersion,  \* the library's last-modified version
    gate,        \* composer.default_item_include_re / default_item_exclude_re
    cache,       \* the 'cache' storage: [exists, docs], docs = committed documents
    index,       \* the 'index' storage: [exists, docs]
    objects,     \* save_object/load_object: namespace -> name -> value (Absent if none)
    run,         \* what the last operation did and handed back to its caller
    e2e,         \* progress through: empty stores, cache sync, index sync, index sync
    job          \* the sync run in progress, where a run is taken step by step

vars == <<remote, libVersion, gate, cache, index, objects, run, e2e, job>>

(* ------------------------------ bounds --------------------------------- *)
MaxKeys == 3
MaxVersion == 2

Keys == 1..MaxKeys
Tags == {"keep", "drop"}
\* The tag lists an item is given: untagged, or one of the two tags.
TagSets == {{}, {"keep"}, {"drop"}}
Namespaces == {"cache", "index"}
Names == {"version", "library"}
Absent == -1
NoParent == 0

(* ----------------------- the remote library ---------------------------- *)
\* Every third key is a note attached to the item before it; the rest are
\* top-level books.
ItemTypeOf(k) == IF k % 3 = 0 THEN "note" ELSE "book"
ParentOf(k) == IF k % 3 = 0 THEN k - 1 ELSE NoParent
NoItem == [version |-> 0, tags |-> {}]
Present(k) == remote[k].version > 0

RawItem(k) ==
    [key |-> k,
     version |-> remote[k].version,
     data |-> [parentItem |-> ParentOf(k), itemType |-> ItemTypeOf(k),
               tags |-> remote[k].tags]]

\* library_context.item_types.keys()
item_types == {"book", "note"}
\* cache.py:51-54
allowed_item_types == {t \in item_types : t \notin {"note", "attachment"}}

RECURSIVE SortedSeq(_)
SortedSeq(S) ==
    IF S = {} THEN <<>>
    ELSE LET m == CHOOSE x \in S : \A y \in S : x <= y
         IN <<m>> \o SortedSeq(S \ {m})

\* zotero.Items(credentials, since, item_types, formats): the items of the
\* given types modified after `since`, in key order.
Items(since, types) ==
    LET ks == {k \in Keys : /\ Present(k)
                            /\ remote[k].version > since
                            /\ ItemTypeOf(k) \in types}
        s == SortedSeq(ks)
    IN [i \in 1..Len(s) |-> RawItem(s[i])]

\* zotero.last_modified_version(credentials)
last_modified_version == libVersion

\* zotero.request_library_context(credentials): the snapshot of the library's
\* metadata, named by the library version it was taken at.
request_library_context == libVersion

(* ----------------------------- storage --------------------------------- *)
load_object(storage, name, default) ==
    IF objects[storage][name] = Absent THEN default ELSE objects[storage][name]

save_object(objs, storage, name, value) ==
    [objs EXCEPT ![storage][name] = value]

\* delete_storage removes a namespace whole: its index and, in `clean`, the
\* objects saved under it (its watermark among them).
NoObjects == [n \in Names |-> Absent]
delete_storage(st) == [exists |-> FALSE, docs |-> {}]

(* ------------------------------ Tag Gate ------------------------------- *)
\* TagGate(include_re, exclude_re).check(data): a pattern is the tag it
\* matches, "" when the pattern is not set.
GateCheck(g, data) ==
    IF g.exclude # "" /\ g.exclude \in data.tags THEN FALSE
    ELSE IF g.include # "" THEN g.include \in data.tags
    ELSE TRUE

\* The configurations explored: Kerko's exclude pattern alone, and the
\* include and exclude patterns together.
GateConfigs == [include : {"", "keep"}, exclude : {"drop"}]

(* ------------------------------ faults --------------------------------- *)
\* Where a run raises: nowhere; "open" before the write session is opened
\* (credentials, library context, open_index); "fetch" while the loop pulls
\* its at-th record; "write" in update_document for the at-th record.
NoFault == [where |-> "none", at |-> 0]
Faults == {NoFault, [where |-> "open", at |-> 0]}
            \cup [where : {"fetch", "write"}, at : 1..(MaxKeys + 1)]

\* A KeyboardInterrupt or SystemExit raised while the loop runs: a
\* BaseException that is no Exception.
Interrupt == [where |-> "interrupt", at |-> 0]

\* json.dumps / json.loads of an item's data
json_dumps(data) == <<"json", data>>
json_loads(text) == text[2]

\* Mutant: count is incremented after update_document has returned.
LoopCount_after_write(M, fault) ==
    IF fault.where \in {"fetch", "write"} THEN fault.at - 1 ELSE M

\* The records the loop has been handed when the run leaves it.
LoopCount(M, fault) ==
    IF fault.where = "fetch" THEN fault.at - 1
    ELSE IF fault.where = "write" THEN fault.at
    ELSE M

\* The positions whose update_document call, if any, has returned.
LoopDone(M, fault) ==
    IF fault.where \in {"fetch", "write"} THEN 1..(fault.at - 1) ELSE 1..M

FaultApplies(items, g, fault) ==
    \/ fault.where \in {"none", "open", "interrupt"}
    \/ fault.where = "fetch" /\ fault.at \in 1..(Len(items) + 1)
    \/ /\ fault.where = "write"
       /\ fault.at \in 1..Len(items)
       /\ GateCheck(g, items[fault.at].data)

\* Mutant: the write session keeps the default merge type, and a commit adds
\* its documents to those of the store.
WriterEnd_merge(session, old, pending) ==
    IF session = "commit" THEN old \cup pending ELSE old

\* writer.mergetype = CLEAR: a commit replaces the store with the documents
\* of the session; writer.cancel() leaves the store as it was.
WriterEnd(session, old, pending) ==
    IF session = "commit" THEN pending ELSE old

\* except Exception: what the except branch catches, what leaves the
\* function uncaught, and what the function returns if it returns.
Caught(fault) == fault.where \in {"fetch", "write"}
Uncaught(fault) == IF fault.where = "interrupt" THEN "KeyboardInterrupt" ELSE "none"
Returned(M, fault) == IF fault.where = "interrupt" THEN Absent ELSE LoopCount(M, fault)

Outcome(op) ==
    [op |-> op, target |-> "", full |-> FALSE, ret |-> Absent, raised |-> "none",
     session |-> "none", caught |-> FALSE, version |-> Absent]

(* ----------------------------- sync_cache ------------------------------ *)
\* Mutant: the stream is asked for what changed after the version the
\* library has now.
cache_since_now == libVersion

cache_since == 0

cache_document(item) ==
    [key |-> item.key,
     version |-> item.version,
     parent_item |-> item.data.parentItem,
     item_type |-> item.data.itemType,
     data |-> json_dumps(item.data)]

\* Mutant: the except branch commits what the loop had written.
cache_session_commits(fault) == "commit"

\* try / except Exception / else around the loop; "open" is a session that
\* the run leaves without commit and without cancel.
cache_session(fault) ==
    IF fault.where = "none" THEN "commit"
    ELSE IF fault.where = "interrupt" THEN "open"
    ELSE "cancel"

\* What sync_cache leaves in the key/value store when its session commits.
cache_saved(objs, version, library_context) == objs

sync_cache(fault) ==
    LET library_context == request_library_context
        since == cache_since
        version == last_modified_version
        items == Items(since, allowed_item_types)
        M == Len(items)
        done == {i \in LoopDone(M, fault) : GateCheck(gate, items[i].data)}
        pending == {cache_document(items[i]) : i \in done}
        session == cache_session(fault)
    IN  /\ FaultApplies(items, gate, fault)
        /\ IF fault.where = "open"
           THEN /\ run' = [Outcome("sync_cache") EXCEPT !.raised = "SourceError"]
                /\ UNCHANGED <<cache, objects>>
                /\ e2e' = Absent
           ELSE /\ cache' = [exists |-> TRUE,
                             docs |-> WriterEnd(session, cache.docs, pending)]
                /\ objects' = IF session = "commit"
                              THEN cache_saved(objects, version, library_context)
                              ELSE objects
                /\ run' = [Outcome("sync_cache") EXCEPT
                              !.ret = Returned(M, fault),
                              !.raised = Uncaught(fault),
                              !.session = session,
                              !.caught = Caught(fault),
                              !.version = version]
                /\ e2e' = IF e2e = 0 /\ session = "commit" THEN 1 ELSE Absent
        /\ UNCHANGED <<remote, libVersion, gate, index, job>>

(* ----------------------------- sync_index ------------------------------ *)
\* yield_items(parent_key): the cached records under parent_key, data decoded
yield_items(parent_key) ==
    LET hits == {d \in cache.docs : d.parent_item = parent_key}
        s == SortedSeq({d.key : d \in hits})
    IN [i \in 1..Len(s) |->
          LET hit == CHOOSE d \in hits : d.key = s[i]
          IN [hit EXCEPT !.data = json_loads(hit.data)]]

\* Mutant: the loop runs over every cached record, children too.
yield_every_item ==
    LET s == SortedSeq({d.key : d \in cache.docs})
    IN [i \in 1..Len(s) |->
          LET hit == CHOOSE d \in cache.docs : d.key = s[i]
          IN [hit EXCEPT !.data = json_loads(hit.data)]]

yield_top_level_items == yield_items(NoParent)

\* Mutant: the children are looked up under the parent's parent.
yield_children_of_parent(parent) == yield_items(parent.parent_item)

yield_children(parent) == yield_items(parent.key)

\* The document the composer's specs extract from an item and its children.
index_document(item, children, library_context) ==
    [id |-> item.key,
     version |-> item.version,
     children |-> [i \in 1..Len(children) |-> children[i].key]]

\* Mutant: a missing cache watermark reads as 1.
index_cache_version_default_one == load_object("cache", "version", 1)

index_cache_version == load_object("cache", "version", 0)

\* Mutant: the empty-cache return is missing.
index_runs_unguarded(cache_version) ==
    load_object("index", "version", 0) # cache_version

\* Mutant: the up-to-date return is missing.
index_runs_always(cache_version) ==
    cache_version # 0

\* index.py:22-27: the run goes on past both early returns
index_runs(cache_version) ==
    /\ cache_version # 0
    /\ load_object("index", "version", 0) # cache_version

index_session(fault) ==
    IF fault.where = "none" THEN "commit"
    ELSE IF fault.where = "interrupt" THEN "open"
    ELSE "cancel"

\* Mutant: index sync trusts the verdict of cache-build time.
index_gate_check_skipped(item) == TRUE

\* gate.check(item['data']) in the loop of sync_index
index_gate_check(item) == GateCheck(gate, item.data)

\* Mutant: the watermark is saved after the try statement, whatever its branch.
index_saved_always(objs, session, cache_version) ==
    save_object(objs, "index", "version", cache_version)

index_saved(objs, session, cache_version) ==
    IF session = "commit" THEN save_object(objs, "index", "version", cache_version)
    ELSE objs

sync_index(fault) ==
    LET library_context == load_object("cache", "library", Absent)
        cache_version == index_cache_version
        items == yield_top_level_items
        M == Len(items)
        done == {i \in LoopDone(M, fault) : index_gate_check(items[i])}
        pending == {index_document(items[i], yield_children(items[i]), library_context)
                      : i \in done}
        session == index_session(fault)
    IN  /\ IF ~cache.exists
           THEN /\ fault = NoFault
                /\ run' = [Outcome("sync_index") EXCEPT !.raised = "SearchIndexError"]
                /\ UNCHANGED <<index, objects>>
           ELSE IF ~index_runs(cache_version)
           THEN /\ fault = NoFault
                /\ run' = [Outcome("sync_index") EXCEPT !.ret = 0]
                /\ UNCHANGED <<index, objects>>
           ELSE IF fault.where = "open"
           THEN /\ run' = [Outcome("sync_index") EXCEPT !.raised = "SchemaError"]
                /\ UNCHANGED <<index, objects>>
           ELSE /\ FaultApplies(items, gate, fault)
                /\ index' = [exists |-> TRUE,
                             docs |-> WriterEnd(session, index.docs, pending)]
                /\ objects' = index_saved(objects, session, cache_version)
                /\ run' = [Outcome("sync_index") EXCEPT
                              !.ret = Returned(M, fault),
                              !.raised = Uncaught(fault),
                              !.session = session,
                              !.caught = Caught(fault),
                              !.version = cache_version]
        /\ e2e' = IF e2e \in {1, 2} /\ fault = NoFault THEN e2e + 1 ELSE Absent
        /\ UNCHANGED <<remote, libVersion, gate, cache, job>>

(* -------------------------------- CLI ---------------------------------- *)
Targets == {"cache", "index", "attachments", "everything"}

\* cli.py sync: sync_cache(full) and sync_index(full) are calls with one
\* argument to functions that take none, so the call raises TypeError
\* before the function's body starts; TypeError is neither SearchIndexError
\* nor SchemaError and leaves the command uncaught.
sync(target, full) ==
    /\ run' = [Outcome("sync") EXCEPT
                  !.target = target, !.full = full,
                  !.raised = IF target \in {"everything", "cache", "index"}
                             THEN "TypeError" ELSE "none"]
    /\ e2e' = Absent
    /\ UNCHANGED <<remote, libVersion, gate, cache, index, objects, job>>

clean(target) ==
    /\ cache' = IF target \in {"everything", "cache"}
                THEN delete_storage("cache") ELSE cache
    /\ index' = IF target \in {"everything", "index"}
                THEN delete_storage("index") ELSE index
    /\ objects' = [ns \in Namespaces |->
                     IF target \in {"everything", ns} THEN NoObjects ELSE objects[ns]]
    /\ run' = Outcome("clean")
    /\ e2e' = IF e2e = 0 THEN 0 ELSE Absent
    /\ UNCHANGED <<remote, libVersion, gate, job>>

(* ------------------------- the library changes ------------------------- *)
RemoteUpsert(k, tags) ==
    /\ libVersion < MaxVersion
    /\ libVersion' = libVersion + 1
    /\ remote' = [remote EXCEPT ![k] = [version |-> libVersion + 1, tags |-> tags]]
    /\ run' = Outcome("remote")
    /\ e2e' = IF e2e = 0 THEN 0 ELSE Absent
    /\ UNCHANGED <<gate, cache, index, objects, job>>

RemoteDelete(k) ==
    /\ libVersion < MaxVersion
    /\ Present(k)
    /\ libVersion' = libVersion + 1
    /\ remote' = [remote EXCEPT ![k] = NoItem]
    /\ run' = Outcome("remote")
    /\ e2e' = Absent
    /\ UNCHANGED <<gate, cache, index, objects, job>>

(* ---------------------- sync_cache, step by step ----------------------- *)
\* No run in progress. Of a run in progress: kind, which function; version,
\* the version it read before its loop; last, the key of the last item the
\* stream handed out; items and pos, the records of the searcher the loop
\* iterates and the loop's place in them; pending, the documents of the
\* write session; count. History kept for the properties: changed, the
\* library changed during the run; stale, the keys that changed after the
\* stream had handed them out; missed, the stale keys of the runs before,
\* and recovered, those of them a run without changes has since committed
\* over; gen, the cache documents committed when the loop started.
Idle ==
    [kind |-> "none", version |-> Absent, last |-> 0, items |-> <<>>, pos |-> 0,
     pending |-> {}, count |-> 0, changed |-> FALSE, stale |-> {},
     missed |-> {}, recovered |-> {}, gen |-> {}]

\* cache.py:41-49: everything up to the loop
cache_begin ==
    /\ job.kind = "none"
    /\ job' = [Idle EXCEPT !.kind = "cache",
                           !.version = last_modified_version,
                           !.missed = job.missed]
    /\ cache' = [cache EXCEPT !.exists = TRUE]
    /\ run' = Outcome("sync_cache")
    /\ e2e' = Absent
    /\ UNCHANGED <<remote, libVersion, gate, index, objects>>

\* The keys the stream has still to hand out, as the library is now: the
\* stream is lazy and pages through the library while the loop runs.
StreamRest ==
    LET items == Items(cache_since, allowed_item_types)
    IN {items[i].key : i \in {j \in 1..Len(items) : items[j].key > job.last}}

\* cache.py:57-77: one turn of the loop
cache_step ==
    /\ job.kind = "cache"
    /\ StreamRest # {}
    /\ LET k == CHOOSE x \in StreamRest : \A y \in StreamRest : x <= y
           item == RawItem(k)
       IN job' = [job EXCEPT
                     !.last = k,
                     !.count = job.count + 1,
                     !.pending = IF GateCheck(gate, item.data)
                                 THEN job.pending \cup {cache_document(item)}
                                 ELSE job.pending]
    /\ UNCHANGED <<remote, libVersion, gate, cache, index, objects, run, e2e>>

\* The loop ends, or raises; cache.py:85-94.
cache_end(fault) ==
    /\ job.kind = "cache"
    /\ fault.where = "none" => StreamRest = {}
    /\ LET session == cache_session(fault)
       IN /\ cache' = [exists |-> TRUE,
                        docs |-> WriterEnd(session, cache.docs, job.pending)]
          /\ objects' = IF session = "commit"
                        THEN cache_saved(objects, job.version, request_library_context)
                        ELSE objects
          /\ run' = [Outcome("sync_cache") EXCEPT
                        !.ret = job.count,
                        !.session = session,
                        !.caught = Caught(fault),
                        !.version = job.version]
          /\ job' = [Idle EXCEPT
                        !.missed = job.stale \cup
                                   (IF job.changed \/ session # "commit"
                                    THEN job.missed ELSE {}),
                        !.recovered = IF job.changed \/ session # "commit"
                                      THEN {} ELSE job.missed]
    /\ e2e' = Absent
    /\ UNCHANGED <<remote, libVersion, gate, index>>

\* The library changes, perhaps while a cache sync streams it.
Noted(k) ==
    IF job.kind = "cache"
    THEN [job EXCEPT !.changed = TRUE,
                     !.stale = IF k <= job.last THEN job.stale \cup {k}
                               ELSE job.stale]
    ELSE job

StreamUpsert(k, tags) ==
    /\ libVersion < MaxVersion
    /\ libVersion' = libVersion + 1
    /\ remote' = [remote EXCEPT ![k] = [version |-> libVersion + 1, tags |-> tags]]
    /\ job' = Noted(k)
    /\ run' = IF job.kind = "none" THEN Outcome("remote") ELSE run
    /\ UNCHANGED <<gate, cache, index, objects, e2e>>

StreamDelete(k) ==
    /\ libVersion < MaxVersion
    /\ Present(k)
    /\ libVersion' = libVersion + 1
    /\ remote' = [remote EXCEPT ![k] = NoItem]
    /\ job' = Noted(k)
    /\ run' = IF job.kind = "none" THEN Outcome("remote") ELSE run
    /\ UNCHANGED <<gate, cache, index, objects, e2e>>

(* ---------------------- sync_index, step by step ----------------------- *)
\* index.py:18-50: everything up to the loop, which iterates the searcher
\* that yield_top_level_items opens.
index_begin ==
    /\ job.kind = "none"
    /\ cache.exists
    /\ index_runs(index_cache_version)
    /\ job' = [Idle EXCEPT !.kind = "index",
                           !.version = index_cache_version,
                           !.items = yield_top_level_items,
                           !.gen = cache.docs]
    /\ index' = [index EXCEPT !.exists = TRUE]
    /\ run' = Outcome("sync_index")
    /\ e2e' = Absent
    /\ UNCHANGED <<remote, libVersion, gate, cache, objects>>

\* index.py:50-62: one turn of the loop; yield_children opens a searcher of
\* its own on the cache as it is committed now.
index_step ==
    /\ job.kind = "index"
    /\ job.pos < Len(job.items)
    /\ LET item == job.items[job.pos + 1]
           library_context == load_object("cache", "library", Absent)
       IN job' = [job EXCEPT
                     !.pos = job.pos + 1,
                     !.count = job.count + 1,
                     !.pending =
                        IF index_gate_check(item)
                        THEN job.pending \cup
                             {index_document(item, yield_children(item), library_context)}
                        ELSE job.pending]
    /\ UNCHANGED <<remote, libVersion, gate, cache, index, objects, run, e2e>>

\* The loop ends, or raises; index.py:63-73.
index_end(fault) ==
    /\ job.kind = "index"
    /\ fault.where = "none" => job.pos = Len(job.items)
    /\ LET session == index_session(fault)
       IN /\ index' = [exists |-> TRUE,
                        docs |-> WriterEnd(session, index.docs, job.pending)]
          /\ objects' = index_saved(objects, session, job.version)
          /\ run' = [Outcome("sync_index") EXCEPT
                        !.ret = job.count,
                        !.session = session,
                        !.caught = Caught(fault),
                        !.version = job.version]
          /\ job' = [Idle EXCEPT !.gen = job.gen]
    /\ e2e' = Absent
    /\ UNCHANGED <<remote, libVersion, gate, cache>>

(* ----------------------- the gate's rules change ----------------------- *)
\* The operator edits the inclusion and exclusion patterns between two runs.
set_gate(g) ==
    /\ g # gate
    /\ gate' = g
    /\ run' = Outcome("config")
    /\ e2e' = Absent
    /\ UNCHANGED <<remote, libVersion, cache, index, objects, job>>

(* --------------------------- specification ----------------------------- *)
\* A fresh installation: no storage directory, nothing saved, an empty library.
Init ==
    /\ remote = [k \in Keys |-> NoItem]
    /\ libVersion = 0
    /\ gate \in GateConfigs
    /\ cache = [exists |-> FALSE, docs |-> {}]
    /\ index = [exists |-> FALSE, docs |-> {}]
    /\ objects = [ns \in Namespaces |-> NoObjects]
    /\ run = Outcome("none")
    /\ e2e = 0
    /\ job = Idle

Next ==
    \/ \E fault \in Faults : sync_cache(fault)
    \/ \E fault \in Faults : sync_index(fault)
    \/ \E target \in Targets, full \in BOOLEAN : sync(target, full)
    \/ \E target \in Targets : clean(target)
    \/ \E k \in Keys, tags \in TagSets : RemoteUpsert(k, tags)
    \/ \E k \in Keys : RemoteDelete(k)

Spec == Init /\ [][Next]_vars

\* The same without the `sync` command: sync_cache and sync_index called as
\* they are defined, `clean`, and the library changing.
NextCore ==
    \/ \E fault \in Faults : sync_cache(fault)
    \/ \E fault \in Faults : sync_index(fault)
    \/ \E target \in Targets : clean(target)
    \/ \E k \in Keys, tags \in TagSets : RemoteUpsert(k, tags)
    \/ \E k \in Keys : RemoteDelete(k)

\* Storage provisioned as a cache sync that persists its results leaves it:
\* every item the gate accepts is cached, and the cache namespace holds the
\* library version as its watermark and a library snapshot. sync_cache as
\* written saves neither, so sync_index gets past its first return only
\* from such storage.
Libraries ==
    {r \in [Keys -> {NoItem} \cup [version : 1..MaxVersion, tags : TagSets]] :
        \A j, k \in Keys :
            (j # k /\ r[j].version > 0 /\ r[k].version > 0)
                => r[j].version # r[k].version}

Provisioned ==
    /\ remote \in Libraries
    /\ libVersion \in 0..MaxVersion
    /\ \A k \in Keys : remote[k].version <= libVersion
    /\ gate \in GateConfigs
    /\ cache = [exists |-> TRUE,
                docs |-> {cache_document(RawItem(k)) :
                            k \in {j \in Keys : /\ Present(j)
                                                /\ GateCheck(gate, RawItem(j).data)}}]
    /\ index = [exists |-> FALSE, docs |-> {}]
    /\ objects = [ns \in Namespaces |->
                    IF ns = "cache"
                    THEN [n \in Names |-> libVersion]
                    ELSE NoObjects]
    /\ run = Outcome("none")
    /\ e2e = Absent
    /\ job = Idle

InitProvisioned == Init \/ Provisioned

SpecProvisioned == InitProvisioned /\ [][NextCore]_vars

\* The `sync` command over provisioned storage.
SpecCli == InitProvisioned /\ [][Next]_vars

\* The core commands with the process interrupted while a sync loop runs.
NextInterrupt ==
    \/ NextCore
    \/ sync_cache(Interrupt)
    \/ sync_index(Interrupt)

SpecInterrupt == InitProvisioned /\ [][NextInterrupt]_vars

\* A cache sync taken step by step from a fresh installation, the library
\* changing before, during and after it.
LoopFaults == {NoFault, [where |-> "write", at |-> 0]}

NextStream ==
    \/ cache_begin
    \/ cache_step
    \/ \E fault \in LoopFaults : cache_end(fault)
    \/ \E k \in Keys, tags \in TagSets : StreamUpsert(k, tags)
    \/ \E k \in Keys : StreamDelete(k)

SpecStream == Init /\ [][NextStream]_vars

\* An index sync taken step by step over provisioned storage, with cache
\* syncs committing before, during and after it.
NextConcurrent ==
    \/ index_begin
    \/ index_step
    \/ \E fault \in LoopFaults : index_end(fault)
    \/ \E fault \in Faults : sync_cache(fault)

SpecConcurrent == InitProvisioned /\ [][NextConcurrent]_vars

\* Provisioned storage with the gate's rules changing between runs, the
\* library standing still.
NextGate ==
    \/ \E fault \in Faults : sync_cache(fault)
    \/ \E fault \in Faults : sync_index(fault)
    \/ \E target \in Targets : clean(target)
    \/ \E g \in GateConfigs : set_gate(g)

SpecGate == InitProvisioned /\ [][NextGate]_vars

\* The same without `clean`: each store is written by its own sync only.
NextCount ==
    \/ \E fault \in Faults : sync_cache(fault)
    \/ \E fault \in Faults : sync_index(fault)
    \/ \E g \in GateConfigs : set_gate(g)

SpecCount == InitProvisioned /\ [][NextCount]_vars

(* ------------------------------ claims --------------------------------- *)
\* (C1 to C10)
\* The persisted watermark of a store, an absent one counting as 0.
Watermark(ns) == load_object(ns, "version", 0)
CacheKeys == {d.key : d \in cache.docs}
SyncOps == {"sync_cache", "sync_index"}

AtomicFailure ==
    [][(run'.op \in SyncOps /\ run'.caught) =>
          /\ run'.op = "sync_cache" =>
                /\ cache'.docs = cache.docs
                /\ Watermark("cache")' = Watermark("cache")
          /\ run'.op = "sync_index" =>
                /\ index'.docs = index.docs
                /\ Watermark("index")' = Watermark("index")]_vars

\* A cache sync failed on its second or a later record, the first one
\* upserted, over a cache that a run before it had filled.
C2_Witness ==
    /\ run.op = "sync_cache"
    /\ run.caught
    /\ run.ret >= 2
    /\ \A i \in 1..Len(Items(cache_since, allowed_item_types)) :
          GateCheck(gate, Items(cache_since, allowed_item_types)[i].data)
    /\ cache.docs # {}
    /\ CacheKeys # {Items(cache_since, allowed_item_types)[i].key :
                       i \in 1..Len(Items(cache_since, allowed_item_types))}

\* C3: after a cache sync that succeeds, the persisted cache watermark is
\* the library version the run captured, and not below the one before.
CacheWatermarkAdvances ==
    [][(run'.op = "sync_cache" /\ run'.session = "commit") =>
          /\ Watermark("cache")' = run'.version
          /\ Watermark("cache")' >= Watermark("cache")]_vars

\* C4: from empty stores and a library of K top-level items at version
\* V > 0 with no deletions, cache sync then index sync leave K cache
\* records, K documents and both watermarks at V, and the index sync after
\* them returns 0.
TopLevel == {k \in Keys : Present(k) /\ ParentOf(k) = NoParent}
EndToEnd ==
    (/\ e2e \in {2, 3}
     /\ libVersion > 0
     /\ \A k \in Keys : Present(k) =>
            k \in TopLevel /\ GateCheck(gate, RawItem(k).data))
    => /\ Cardinality(cache.docs) = Cardinality(TopLevel)
       /\ Cardinality(index.docs) = Cardinality(TopLevel)
       /\ Watermark("cache") = libVersion
       /\ Watermark("index") = libVersion
       /\ e2e = 3 => run.ret = 0

\* C5: a cache sync that runs right after a successful one, the library
\* unchanged in between, returns 0 and leaves the cache watermark as it was.
IdempotentCacheSync ==
    [][(/\ run.op = "sync_cache" /\ run.session = "commit"
        /\ run'.op = "sync_cache" /\ run'.session = "commit") =>
          /\ run'.ret = 0
          /\ Watermark("cache")' = Watermark("cache")]_vars

\* C6: after a successful cache sync that started with a watermark W > 0,
\* no cached record is left for a key the library has deleted since, and
\* the cache watermark is the library's new version.
DeletionPropagates ==
    [][(/\ run'.op = "sync_cache"
        /\ run'.session = "commit"
        /\ Watermark("cache") > 0
        /\ \E k \in CacheKeys : ~Present(k)) =>
          /\ \A k \in CacheKeys : ~Present(k) => k \notin CacheKeys'
          /\ Watermark("cache")' = libVersion]_vars

\* C7: with no cache watermark persisted, or a persisted 0, an index sync
\* opens no write session and leaves the index store and the index
\* watermark as they were.
NoIndexRunWithoutCacheWatermark ==
    [][(run'.op = "sync_index" /\ Watermark("cache") = 0) =>
          /\ run'.session = "none"
          /\ index' = index
          /\ Watermark("index")' = Watermark("index")]_vars

\* An index sync has returned on a filled cache without watermark, the
\* index holding documents of an earlier run.
C7_Witness ==
    /\ run.op = "sync_index"
    /\ Watermark("cache") = 0
    /\ cache.docs # {}
    /\ index.docs # {}
    /\ Watermark("index") > 0

\* C8: with the index watermark equal to a cache watermark above 0, an
\* index sync returns 0 and leaves the index store and the index watermark
\* as they were.
UpToDateIsNoOp ==
    [][(/\ run'.op = "sync_index"
        /\ Watermark("cache") > 0
        /\ Watermark("index") = Watermark("cache")) =>
          /\ run'.ret = 0
          /\ run'.session = "none"
          /\ index' = index
          /\ Watermark("index")' = Watermark("index")]_vars

\* An index sync has returned 0 with equal watermarks, the cache holding
\* other records than the ones the index was built from.
C8_Witness ==
    /\ run.op = "sync_index"
    /\ run.ret = 0
    /\ Watermark("cache") > 0
    /\ Watermark("index") = Watermark("cache")
    /\ {d.id : d \in index.docs} # {k \in CacheKeys : ParentOf(k) = NoParent}

\* C9: `sync index --full` rebuilds the index although the index watermark
\* equals the cache watermark.
FullForcesRebuild ==
    [][(/\ run'.op = "sync"
        /\ run'.target = "index"
        /\ run'.full
        /\ Watermark("cache") > 0
        /\ Watermark("index") = Watermark("cache")) =>
          run'.session # "none"]_vars

\* C10: a run in which a failure occurred hands its caller an error.
FailurePropagates ==
    (run.op \in SyncOps /\ run.caught) => run.raised # "none"

\* (C11 to C20)

\* C11: after a cache sync that succeeds, the library snapshot saved under
\* the cache namespace is the one the run fetched.
LibraryContextPersisted ==
    [][(run'.op = "sync_cache" /\ run'.session = "commit") =>
          load_object("cache", "library", Absent)' = request_library_context]_vars

\* C12: an index sync that commits leaves the index watermark equal to the
\* cache watermark, and an index sync that does not commit leaves the index
\* watermark as it was.
IndexWatermarkFollowsCommit ==
    [][(run'.op = "sync_index") =>
          /\ run'.session = "commit" =>
                Watermark("index")' = Watermark("cache")'
          /\ run'.session # "commit" =>
                objects'["index"] = objects["index"]]_vars

\* An index sync has committed documents and saved a watermark above 0.
C12_Witness ==
    /\ run.op = "sync_index"
    /\ run.session = "commit"
    /\ index.docs # {}
    /\ Watermark("index") > 0
    /\ Watermark("index") = Watermark("cache")

\* The keys of the items a cache sync streams, and of those the gate accepts.
StreamedKeys == {k \in Keys : Present(k) /\ ItemTypeOf(k) \in allowed_item_types}
AcceptedKeys == {k \in StreamedKeys : GateCheck(gate, RawItem(k).data)}

\* C14: after a cache sync that commits, the cache store holds one record
\* for each streamed item the gate accepted, carrying that item's version,
\* and no other record.
CacheIsAcceptedStream ==
    (run.op = "sync_cache" /\ run.session = "commit") =>
        /\ CacheKeys = AcceptedKeys
        /\ Cardinality(cache.docs) = Cardinality(AcceptedKeys)
        /\ \A d \in cache.docs : d.version = remote[d.key].version

\* A cache sync has committed over a library with an item the gate accepts
\* and an item it rejects.
C14_Witness ==
    /\ run.op = "sync_cache"
    /\ run.session = "commit"
    /\ cache.docs # {}
    /\ StreamedKeys \ AcceptedKeys # {}

\* The keys of the cached records whose parent is k.
ChildKeys(k) == {d.key : d \in {c \in cache.docs : c.parent_item = k}}

\* C15: each document an index sync composes carries as children the cached
\* records whose parent_item is the document's key, each once, and no other.
ChildrenAreGrouped ==
    (run.op = "sync_index" /\ run.session = "commit") =>
        \A doc \in index.docs :
            /\ {doc.children[i] : i \in 1..Len(doc.children)} = ChildKeys(doc.id)
            /\ Len(doc.children) = Cardinality(ChildKeys(doc.id))

\* An index sync has composed a record with a child, the child having no
\* document of its own.
C15_Witness ==
    /\ run.op = "sync_index"
    /\ run.session = "commit"
    /\ \E doc \in index.docs :
          /\ Len(doc.children) > 0
          /\ \A i \in 1..Len(doc.children) :
                \A other \in index.docs : other.id # doc.children[i]

\* The cached top-level records, and those the gate in force accepts.
TopLevelRecords == {c \in cache.docs : c.parent_item = NoParent}
AcceptedRecords == {c \in TopLevelRecords : GateCheck(gate, json_loads(c.data))}

\* C16: after an index sync that commits, the index store holds one
\* document for each top-level cached record the gate accepts, carrying
\* that record's version, and no other document.
IndexIsAcceptedTopLevel ==
    (run.op = "sync_index" /\ run.session = "commit") =>
        /\ {doc.id : doc \in index.docs} = {c.key : c \in AcceptedRecords}
        /\ Cardinality(index.docs) = Cardinality(AcceptedRecords)
        /\ \A doc \in index.docs : \E c \in AcceptedRecords :
              c.key = doc.id /\ c.version = doc.version

\* An index sync has committed documents over a cache that also holds a
\* top-level record the gate rejects.
C16_Witness ==
    /\ run.op = "sync_index"
    /\ run.session = "commit"
    /\ index.docs # {}
    /\ TopLevelRecords \ AcceptedRecords # {}

\* C18 as stated: the gate is not applied again to cached records, so after
\* an index sync that commits every top-level cached record has a document.
GateAppliedOnce ==
    (run.op = "sync_index" /\ run.session = "commit") =>
        \A c \in TopLevelRecords : \E doc \in index.docs : doc.id = c.key

\* C18 amended: index sync applies the gate in force to every top-level
\* cached record again, so a document's record is one that gate accepts;
\* child records are not evaluated and go with their parent.
GateAppliedAgainAtIndexTime ==
    (run.op = "sync_index" /\ run.session = "commit") =>
        \A doc \in index.docs :
            /\ \A c \in cache.docs :
                  c.key = doc.id => GateCheck(gate, json_loads(c.data))
            /\ \A c \in cache.docs :
                  c.parent_item = doc.id =>
                      \E i \in 1..Len(doc.children) : doc.children[i] = c.key

\* After a change of rules an index sync has committed a document whose
\* child the gate in force rejects.
C18_Witness ==
    /\ run.op = "sync_index"
    /\ run.session = "commit"
    /\ \E doc \in index.docs : \E c \in cache.docs :
          /\ c.parent_item = doc.id
          /\ ~GateCheck(gate, json_loads(c.data))

\* The records a loop over `total` records was handed before it was left.
EnumeratedUpTo(total, fault) ==
    IF fault.where = "fetch" THEN fault.at - 1
    ELSE IF fault.where = "write" THEN fault.at
    ELSE total

\* The faults of the runs that end their write session as given.
FaultsOf(session) ==
    IF session = "commit" THEN {NoFault}
    ELSE {f \in Faults : f.where \in {"fetch", "write"}}

\* C19: a run that opened a write session returns the number of records
\* its loop was handed, rejected ones included: all of them for a run that
\* succeeds, those up to the failure for a run that fails.
CountIsEnumerated ==
    [][/\ (run'.op = "sync_cache" /\ run'.session # "none") =>
            \A fault \in FaultsOf(run'.session) : sync_cache(fault) =>
                run'.ret = EnumeratedUpTo(Cardinality(StreamedKeys), fault)
       /\ (run'.op = "sync_index" /\ run'.session # "none") =>
            \A fault \in FaultsOf(run'.session) : sync_index(fault) =>
                run'.ret = EnumeratedUpTo(Cardinality(TopLevelRecords), fault)]_vars

\* An index sync has committed and returned more than it wrote.
C19_Witness ==
    /\ run.op = "sync_index"
    /\ run.session = "commit"
    /\ index.docs # {}
    /\ run.ret > Cardinality(index.docs)

\* C17: a sync run that has opened a write session has ended it by commit
\* or by cancel when it exits, and by commit only if nothing failed.
SessionEndedOnce ==
    run.op \in SyncOps =>
        /\ run.session \in {"none", "commit", "cancel"}
        /\ run.session = "commit" => (~run.caught /\ run.raised = "none")

\* The cache store holds item k as the library has it now.
CacheHoldsLatest(k) ==
    \E d \in cache.docs : d.key = k /\ d.version = remote[k].version

\* C13: a cache sync reads the library version before its loop hands out
\* the first item and keeps it while streaming; and a cache sync that
\* commits, the library not having changed during it, leaves the cache with
\* the latest version of every streamed item the gate accepts, the items
\* that changed during an earlier run among them, and with no record of an
\* item that is gone.
NoRemoteChangeLost ==
    [][/\ (job.kind = "none" /\ job'.kind = "cache") =>
            (job'.version = libVersion /\ job'.count = 0)
       /\ (job.kind = "cache" /\ job'.kind = "cache") =>
            job'.version = job.version
       /\ (job.kind = "cache" /\ job'.kind = "none"
             /\ run'.session = "commit" /\ ~job.changed) =>
            (/\ \A k \in AcceptedKeys : CacheHoldsLatest(k)
             /\ \A d \in cache.docs : d.key \in AcceptedKeys)']_vars

\* An item changed after a run had streamed it, that run committed the old
\* version, and the next run has committed the new one.
C13_Witness ==
    /\ run.op = "sync_cache"
    /\ run.session = "commit"
    /\ job.kind = "none"
    /\ job.recovered # {}
    /\ \A k \in job.recovered : CacheHoldsLatest(k)

\* The keys of the records of generation `docs` whose parent is k.
ChildKeysIn(docs, k) == {d.key : d \in {c \in docs : c.parent_item = k}}

\* C20: the documents an index sync commits are composed of the top-level
\* records and the children of one committed cache generation, the one its
\* loop started on, also when a cache sync commits during the pass.
OneCacheGeneration ==
    [][(job.kind = "index" /\ job'.kind = "none" /\ run'.session = "commit") =>
          \A doc \in index'.docs :
              /\ \E c \in job.gen : c.key = doc.id /\ c.version = doc.version
              /\ {doc.children[i] : i \in 1..Len(doc.children)}
                    = ChildKeysIn(job.gen, doc.id)]_vars

====
